---- MODULE Spec2Model ----
(***************************************************************************)
(* A model of libdiscord-ipy-migrate (src/lib.py): the migration of a      *)
(* Discord channel, its threads and its messages to a destination channel  *)
(* through a webhook.                                                      *)
(*                                                                         *)
(* Python values are modelled as follows.  An Optional value is a sequence *)
(* of at most one element: None is << >> and a present value v is <<v>>.   *)
(* A str is a TLA+ string; a list is a sequence.  The value a function     *)
(* returns is a record [is_none, items]: a bare `return` gives PyNone and  *)
(* `return a, b, c` gives PyTuple(<<a, b, c>>).                            *)
(***************************************************************************)
EXTENDS Integers, Sequences, FiniteSets, TLC

VARIABLES
    entry,       \* the call the flow was started with: the function and its arguments
    wf,          \* the flows that run fetch_create_webhook on their own, each with its
                 \* position, the listing it fetched and the results of its calls
    dest_chan,   \* the destination channel: its kind, its guild's custom stickers, and
                 \* the error codes its platform may answer a send with
    webhooks,    \* the webhooks of the destination channel, in listing order
    threads,     \* the threads of the destination channel, in creation order
    sends,       \* every webhook.send call made so far, in call order, with its outcome
    pc,          \* the control location of the flow
    outcome,     \* "running", "returned", or the exception that left the entry point
    retval,      \* the value the last function call returned
    mc,          \* the frame of migrate_channel
    mt,          \* the frame of migrate_thread
    mm,          \* the frame of migrate_message
    fh           \* the frame of flatten_history_iterator, run on its own

vars == <<entry, wf, dest_chan, webhooks, threads, sends, pc, outcome, retval, mc, mt, mm, fh>>

(***************************************************************************)
(* Bounds of the model                                                     *)
(***************************************************************************)
\* the number of webhook.send calls of one run the platform may fail
MaxFailures == 2

(***************************************************************************)
(* Python values                                                           *)
(***************************************************************************)
None == << >>

Some(v) == <<v>>

Val(o) == o[1]

PyNone == [is_none |-> TRUE, items |-> << >>]

PyTuple(items) == [is_none |-> FALSE, items |-> items]

RECURSIVE Rep(_, _)
\* the string s repeated n times
Rep(s, n) ==
    IF n = 0 THEN ""
    ELSE IF n = 1 THEN s
    ELSE Rep(s, n \div 2) \o Rep(s, n - (n \div 2))

RECURSIVE Join(_, _)
\* sep.join(strs)
Join(sep, strs) ==
    IF Len(strs) = 0 THEN ""
    ELSE IF Len(strs) = 1 THEN strs[1]
    ELSE strs[1] \o sep \o Join(sep, Tail(strs))

RECURSIVE SplitLinesFrom(_, _, _)
\* the lines of s from position `from`, the line in progress starting at `start`
SplitLinesFrom(s, start, from) ==
    IF from > Len(s)
    THEN IF start > Len(s) THEN << >> ELSE <<SubSeq(s, start, Len(s))>>
    ELSE IF SubSeq(s, from, from) = "\n"
         THEN <<SubSeq(s, start, from - 1)>> \o SplitLinesFrom(s, from + 1, from + 1)
         ELSE SplitLinesFrom(s, start, from + 1)

\* s.splitlines(False)
SplitLines(s) == SplitLinesFrom(s, 1, 1)

Reverse(s) == [k \in 1..Len(s) |-> s[Len(s) + 1 - k]]

(***************************************************************************)
(* Module constants                                                        *)
(***************************************************************************)
webhook_name == "DBF"

MESSAGE_LEN_LIMIT == 2000

\* the error codes the handlers name, and one they do not
ErrorCodes == {50083, 10003, 10008, 50001, 50006, 50013, 50021, 160005, 40005}

\* the code of an HTTPException: None, or one of the codes
ExceptionCodes == {None} \cup {Some(c) : c \in ErrorCodes}

(***************************************************************************)
(* flatten_history_iterator                                                *)
(*                                                                         *)
(* What history.__anext__() does on one call is an event: it delivers a    *)
(* message ("msg"), raises an HTTPException with a code ("http") or raises *)
(* another exception ("other").  The end of the event sequence is          *)
(* StopAsyncIteration.                                                     *)
(***************************************************************************)
MsgEvent(m) == [kind |-> "msg", msg |-> Some(m), code |-> None]

HttpEvent(code) == [kind |-> "http", msg |-> None, code |-> code]

OtherEvent == [kind |-> "other", msg |-> None, code |-> None]

\* the cases of `match int(e.code)` that break out of the loop
HistoryStopCodes == {50083, 10003, 50001, 50013}

RECURSIVE FlattenLoop(_, _)
\* the `while True` loop from the state (events left, ret_list): the list the
\* loop ends with, or the TypeError int(None) raises inside the handler
FlattenLoop(events, ret_list) ==
    IF Len(events) = 0
    THEN [raised |-> None, list |-> ret_list]
    ELSE LET e == Head(events) IN
         IF e.kind = "msg"
         THEN FlattenLoop(Tail(events), Append(ret_list, Val(e.msg)))
         ELSE IF e.kind = "http"
         THEN IF e.code = None
              THEN [raised |-> Some("TypeError"), list |-> ret_list]
              ELSE IF Val(e.code) \in HistoryStopCodes
                   THEN [raised |-> None, list |-> ret_list]
                   ELSE FlattenLoop(Tail(events), ret_list)
         ELSE FlattenLoop(Tail(events), ret_list)

flatten_history_iterator(history, reverse) ==
    LET r == FlattenLoop(history, << >>) IN
    IF r.raised # None THEN r
    ELSE [raised |-> None, list |-> IF reverse THEN Reverse(r.list) ELSE r.list]

(***************************************************************************)
(* fetch_create_webhook                                                    *)
(***************************************************************************)
\* the list of line 100, had its filter let nothing through
available_webhooks_None(whs) == << >>

\* [wh for wh in webhooks if wh.name == webhook_name]
available_webhooks(whs) == SelectSeq(whs, LAMBDA wh : wh.name = webhook_name)

\* the id the platform gives the next webhook of the channel
NewWebhookId(whs) ==
    IF Len(whs) = 0 THEN 1
    ELSE 1 + (CHOOSE n \in {whs[k].id : k \in 1..Len(whs)} :
                 \A k \in 1..Len(whs) : whs[k].id <= n)

\* dest_chan.create_webhook(name=webhook_name, ...): the webhook created
create_webhook(whs) == [id |-> NewWebhookId(whs), name |-> webhook_name]

\* the condition of line 101, had it been left out: a webhook is always created
MustCreateWebhook_Always(fetched) == TRUE

\* whether fetch_create_webhook creates a webhook, given the listing it fetched
MustCreateWebhook(fetched) == Len(available_webhooks(fetched)) = 0

\* one sequential call on a channel whose webhooks are whs: the webhook
\* returned and the webhooks of the channel afterwards
fetch_create_webhook(whs) ==
    IF MustCreateWebhook(whs)
    THEN [webhook |-> create_webhook(whs), webhooks |-> Append(whs, create_webhook(whs))]
    ELSE [webhook |-> available_webhooks(whs)[1], webhooks |-> whs]

(***************************************************************************)
(* convert_poll_to_message                                                 *)
(***************************************************************************)
poll_media_to_str(poll_media) ==
    LET emoji_part ==
            IF poll_media.emoji # None
            THEN IF Val(poll_media.emoji).id # None
                 THEN "<:" \o Val(poll_media.emoji).name \o ":"
                      \o ToString(Val(Val(poll_media.emoji).id)) \o ">"
                 ELSE Val(poll_media.emoji).name
            ELSE ""
        text_part ==
            IF poll_media.text # None THEN " " \o Val(poll_media.text) ELSE ""
    IN  emoji_part \o text_part

\* f"{i:04d}"
Format04d(i) ==
    IF i < 10 THEN "000" \o ToString(i)
    ELSE IF i < 100 THEN "00" \o ToString(i)
    ELSE IF i < 1000 THEN "0" \o ToString(i)
    ELSE ToString(i)

Min(a, b) == IF a <= b THEN a ELSE b

convert_poll_to_message(poll) ==
    LET question_str == poll_media_to_str(poll.question)
        answers == [k \in 1..Len(poll.answers) |-> poll_media_to_str(poll.answers[k])]
        shown ==
            IF poll.results # None
            THEN [k \in 1..Min(Len(Val(poll.results)), Len(answers)) |->
                    Format04d(Val(poll.results)[k]) \o " - " \o answers[k]]
            ELSE answers
        final_str == question_str \o "\n" \o Join("\n", shown)
    IN  IF poll.results # None THEN "(Poll finished) " \o final_str ELSE final_str

(***************************************************************************)
(* migrate_message: the text it sends                                      *)
(***************************************************************************)
\* the message types whose referenced message is quoted
QuotedTypes == {"DEFAULT", "REPLY", "THREAD_STARTER_MESSAGE"}

\* replied_text (lines 177-184)
replied_text(orig_msg) ==
    IF orig_msg.reply_to # None /\ Val(orig_msg.reply_to).type \in QuotedTypes
    THEN LET reply_to == Val(orig_msg.reply_to)
             quoted == IF reply_to.poll # None
                       THEN SplitLines(convert_poll_to_message(Val(reply_to.poll)))
                       ELSE SplitLines(reply_to.content)
             msgs_reply_to == [k \in 1..Len(quoted) |-> "> " \o quoted[k]]
         IN  "> **" \o reply_to.author \o "** said:\n" \o Join("\n", msgs_reply_to)
    ELSE ""

\* whether a custom sticker of the guild matches a sticker item, by id or name
StickerMatches(sticker, item) == sticker.id = item.id \/ sticker.name = item.name

\* available_stickers (line 193)
available_stickers(orig_msg, all_stickers) ==
    SelectSeq(all_stickers,
              LAMBDA s : \E k \in 1..Len(orig_msg.sticker_items) :
                            StickerMatches(s, orig_msg.sticker_items[k]))

RECURSIVE PrependStickerUrls(_, _)
\* for s in available_stickers: msg_text = f"{s.url}\n" + msg_text
PrependStickerUrls(stickers, text) ==
    IF Len(stickers) = 0 THEN text
    ELSE PrependStickerUrls(Tail(stickers), Head(stickers).url \o "\n" \o text)

\* msg_text after the sticker step (lines 191-197)
WithStickers(orig_msg, all_stickers, text) ==
    IF Len(orig_msg.sticker_items) = 0 THEN text
    ELSE LET avail == available_stickers(orig_msg, all_stickers)
             missing == SelectSeq(orig_msg.sticker_items,
                           LAMBDA i : ~ \E k \in 1..Len(avail) : StickerMatches(avail[k], i))
             names == [k \in 1..Len(missing) |-> missing[k].name]
             noted == IF Len(avail) < Len(orig_msg.sticker_items)
                      THEN "Sticker " \o Join(",", names) \o " not available\n" \o text
                      ELSE text
         IN  PrependStickerUrls(avail, noted)

\* msg_text = replied_text + "\n" + msg_text (line 185)
WithRepliedText(orig_msg) == replied_text(orig_msg) \o "\n" \o orig_msg.content

\* msg_text as it stands at line 201, before it is split
msg_text(orig_msg, all_stickers) ==
    LET t1 == WithRepliedText(orig_msg)
        t2 == IF Len(orig_msg.attachments) > 0
              THEN Join("\n", orig_msg.attachments) \o "\n" \o t1
              ELSE t1
        t3 == WithStickers(orig_msg, all_stickers, t2)
    IN  IF orig_msg.poll # None
        THEN convert_poll_to_message(Val(orig_msg.poll)) \o "\n" \o t3
        ELSE t3

\* msg_text[0 + i : __MESSAGE_LEN_LIMIT + i]
Slice(text, i) == SubSeq(text, i + 1, Min(i + MESSAGE_LEN_LIMIT, Len(text)))

\* range(0, len(msg_text), __MESSAGE_LEN_LIMIT)
ChunkOffsets(text) ==
    [k \in 1..((Len(text) + MESSAGE_LEN_LIMIT - 1) \div MESSAGE_LEN_LIMIT) |->
        (k - 1) * MESSAGE_LEN_LIMIT]

\* the texts the for loop of line 211 iterates over
Chunks(text) == [k \in 1..Len(ChunkOffsets(text)) |-> Slice(text, ChunkOffsets(text)[k])]

\* the cases that end in a bare return, had the one of code 50013 fallen through
SendReturnCodes_Fewer == {10003, 10008, 50001}

\* the cases of `match int(e.code)` that end in a bare return
SendReturnCodes == {10003, 10008, 50001, 50013}

\* reason_text for the code of a failed send (lines 225-262)
reason_text(code) ==
    IF code = None THEN "of unknown error code"
    ELSE CASE Val(code) = 50083 -> "This thread is archived"
           [] Val(code) = 10003 -> "The channel is unknown"
           [] Val(code) = 10008 -> "The message is unknown"
           [] Val(code) = 50001 -> "The bot has no access"
           [] Val(code) = 50006 -> "Cannot send an empty message"
           [] Val(code) = 50013 -> "The bot lacks the write permission to this channel"
           [] Val(code) = 50021 -> "This thread is archived"
           [] Val(code) = 160005 -> "This thread is locked"
           [] OTHER -> "Unknown error " \o ToString(Val(code))

\* the content of the fallback notice (line 264)
NoticeContent(orig_msg, code) ==
    "Message " \o orig_msg.jump_url \o " " \o ToString(orig_msg.id)
    \o " cannot be migrated because " \o reason_text(code)

(***************************************************************************)
(* is_empty_message                                                        *)
(***************************************************************************)
is_empty_message(msg) ==
    ~ (\/ msg.content # ""
       \/ Len(msg.embeds) > 0
       \/ msg.poll # None
       \/ Len(msg.reactions) > 0
       \/ Len(msg.sticker_items) > 0)

(***************************************************************************)
(* The platform: webhook.send and Message.create_thread                    *)
(***************************************************************************)
\* the number of failed webhook.send calls so far
Failures(log) == Cardinality({k \in 1..Len(log) : ~ log[k].ok})

\* the id the platform gives the next thread of the destination channel
NewThreadId(ths) == Len(ths) + 1

\* whether the platform can carry out a send: a forum channel takes a message
\* only into a thread or as a new post, only a forum channel takes a thread
\* name, and a thread target must be a thread of the channel
Acceptable(dest, thread, thread_name, ths) ==
    /\ dest.kind = "forum" => (thread # None \/ thread_name # None)
    /\ thread_name # None => dest.kind = "forum"
    /\ thread # None => \E k \in 1..Len(ths) : ths[k].id = Val(thread)

\* what a webhook.send call may do: succeed, or raise an HTTPException
SendResults(dest, thread, thread_name, ths, log) ==
    LET failing == {[ok |-> FALSE, code |-> c] : c \in dest.errors} IN
    IF ~ Acceptable(dest, thread, thread_name, ths) THEN failing
    ELSE {[ok |-> TRUE, code |-> None]}
         \cup (IF Failures(log) < MaxFailures THEN failing ELSE {})

\* the channel a successful send lands in: the thread it targets, the thread
\* (forum post) it creates, or the destination channel itself
Landing(dest, thread, thread_name, ths) ==
    IF thread # None THEN [id |-> Val(thread), is_thread |-> TRUE]
    ELSE IF thread_name # None THEN [id |-> NewThreadId(ths), is_thread |-> TRUE]
    ELSE [id |-> dest.id, is_thread |-> FALSE]

\* the message a successful send returns (wait=True)
SentMessage(dest, thread, thread_name, ths, log) ==
    [id |-> Len(log) + 1, channel |-> Landing(dest, thread, thread_name, ths)]

\* the send log after the call `req` with result `res`
SendsAfter(req, res) ==
    Append(sends,
           req @@ [ok |-> res.ok, code |-> res.code,
                   sent |-> IF res.ok
                            THEN Some(SentMessage(dest_chan, req.thread, req.thread_name,
                                                  threads, sends))
                            ELSE None])

\* the threads of the destination after the call `req` with result `res`
ThreadsAfter(req, res) ==
    IF res.ok /\ req.thread = None /\ req.thread_name # None
    THEN Append(threads, [id |-> NewThreadId(threads), name |-> Val(req.thread_name),
                          by |-> "send", message |-> Len(sends) + 1])
    ELSE threads

\* the threads of the destination after sent_msg.create_thread(name=name)
ThreadsAfterCreate(sent_msg, name) ==
    Append(threads, [id |-> NewThreadId(threads), name |-> name,
                     by |-> "create_thread", message |-> sent_msg.id])

(***************************************************************************)
(* Frames and control                                                      *)
(***************************************************************************)
IdleMM == [active |-> FALSE]

IdleMT == [active |-> FALSE]

IdleMC == [active |-> FALSE, unit |-> 0]

IdleFH == [active |-> FALSE]

\* a function returns `val` to the continuation `caller` ("done": the entry point)
ReturnTo(caller, val) ==
    /\ retval' = val
    /\ pc' = caller
    /\ outcome' = IF caller = "done" THEN "returned" ELSE outcome

\* an exception nothing catches ends the flow: no function of the module
\* catches what a callee raises
Raise(exc) ==
    /\ retval' = retval
    /\ pc' = "done"
    /\ outcome' = exc

\* the frame of a call migrate_message(orig_msg, dest_chan, thread_id)
CallMM(orig_msg, thread_id, caller) ==
    [active |-> TRUE, orig_msg |-> orig_msg, thread_id |-> thread_id, caller |-> caller,
     webhook |-> None, msg_text |-> "", i |-> 0, thread |-> None, thread_name |-> None,
     sent_msg |-> None, output_thread_id |-> None, code |-> None]

(***************************************************************************)
(* migrate_message                                                         *)
(***************************************************************************)
\* thread (lines 202-207)
ThreadOf(thread_id) ==
    IF thread_id = None \/ thread_id = Some(0) THEN None ELSE thread_id

\* thread_name, had line 202 been `if not thread_id` with the creation branch
ThreadNameOf_NoneCreates(thread_id, channel_name) ==
    IF thread_id = Some(0) \/ thread_id = None THEN Some(channel_name) ELSE None

\* thread_name (lines 202-207)
ThreadNameOf(thread_id, channel_name) ==
    IF thread_id = Some(0) THEN Some(channel_name) ELSE None

\* lines 157-207: the destination check, the webhook, the text and the target
MM_Begin ==
    /\ pc = "mm_entry"
    /\ UNCHANGED <<fh, entry, wf, dest_chan, threads, sends, mc, mt>>
    /\ IF dest_chan.kind \notin {"text", "forum"}
       THEN /\ ReturnTo(mm.caller, PyTuple(<<FALSE, None>>))
            /\ mm' = IdleMM
            /\ UNCHANGED webhooks
       ELSE LET r == fetch_create_webhook(webhooks)
                text == msg_text(mm.orig_msg, dest_chan.stickers)
            IN  /\ webhooks' = r.webhooks
                /\ IF Len(ChunkOffsets(text)) = 0
                   THEN /\ ReturnTo(mm.caller, PyTuple(<<TRUE, None, None>>))
                        /\ mm' = IdleMM
                   ELSE /\ mm' = [mm EXCEPT
                                    !.webhook = Some(r.webhook),
                                    !.msg_text = text,
                                    !.thread = ThreadOf(mm.thread_id),
                                    !.thread_name =
                                        ThreadNameOf(mm.thread_id, mm.orig_msg.channel_name)]
                        /\ pc' = "mm_send"
                        /\ UNCHANGED <<retval, outcome>>

\* the thread a chunk send names (thread=thread, line 221)
ChunkThread(frame) == frame.thread

\* the thread name a chunk send names (thread_name=thread_name, line 222)
ChunkThreadName(frame) == frame.thread_name

\* the reply target of a chunk send, had reply_to been left out of the call
ChunkReplyTo_Never(frame) == None

\* the reply target a chunk send names (reply_to=sent_msg, line 218)
ChunkReplyTo(frame) ==
    IF frame.sent_msg = None THEN None ELSE Some(Val(frame.sent_msg).id)

\* the webhook.send call of lines 213-223
ChunkRequest ==
    [kind |-> "chunk", src |-> mm.orig_msg.id, unit |-> mc.unit,
     content |-> Slice(mm.msg_text, mm.i), embeds |-> mm.orig_msg.embeds,
     username |-> mm.orig_msg.author,
     reply_to |-> ChunkReplyTo(mm),
     thread |-> ChunkThread(mm), thread_name |-> ChunkThreadName(mm),
     webhook |-> Val(mm.webhook).id]

\* the webhook.send call of lines 263-270
NoticeRequest ==
    [kind |-> "notice", src |-> mm.orig_msg.id, unit |-> mc.unit,
     content |-> NoticeContent(mm.orig_msg, mm.code), embeds |-> << >>,
     username |-> mm.orig_msg.author, reply_to |-> None,
     thread |-> mm.thread, thread_name |-> mm.thread_name,
     webhook |-> Val(mm.webhook).id]

\* output_thread_id after lines 271-272, sent_msg being the message just sent
OutputThreadId(frame, sent_msg) ==
    IF sent_msg.channel.is_thread THEN Some(sent_msg.channel.id)
    ELSE frame.output_thread_id

\* what migrate_message returns when its loop ends (line 274)
FinalReturn(output_thread_id, sent_msg) == PyTuple(<<TRUE, output_thread_id, sent_msg>>)

\* what migrate_message returns on the codes of SendReturnCodes (lines 235-250)
DeniedReturn == PyNone

\* lines 271-274 after a send returned sent_msg: the next chunk, or the return
AfterSent(sent_msg) ==
    LET out == OutputThreadId(mm, sent_msg) IN
    IF mm.i + MESSAGE_LEN_LIMIT < Len(mm.msg_text)
    THEN /\ mm' = [mm EXCEPT !.i = mm.i + MESSAGE_LEN_LIMIT,
                            !.sent_msg = Some(sent_msg),
                            !.output_thread_id = out,
                            !.code = None]
         /\ pc' = "mm_send"
         /\ UNCHANGED <<retval, outcome>>
    ELSE /\ ReturnTo(mm.caller, FinalReturn(out, Some(sent_msg)))
         /\ mm' = IdleMM

\* lines 211-262: one chunk is sent; the send succeeds or raises HTTPException
MM_SendChunk ==
    /\ pc = "mm_send"
    /\ UNCHANGED <<fh, entry, wf, dest_chan, webhooks, mc, mt>>
    /\ \E res \in SendResults(dest_chan, ChunkRequest.thread, ChunkRequest.thread_name,
                              threads, sends) :
          /\ sends' = SendsAfter(ChunkRequest, res)
          /\ threads' = ThreadsAfter(ChunkRequest, res)
          /\ IF res.ok
             THEN AfterSent(SentMessage(dest_chan, ChunkRequest.thread,
                                        ChunkRequest.thread_name, threads, sends))
             ELSE IF res.code # None /\ Val(res.code) \in SendReturnCodes
                  THEN /\ ReturnTo(mm.caller, DeniedReturn)
                       /\ mm' = IdleMM
                  ELSE /\ mm' = [mm EXCEPT !.code = res.code]
                       /\ pc' = "mm_fallback"
                       /\ UNCHANGED <<retval, outcome>>

\* lines 263-270: the fallback notice is sent, outside any try
MM_SendFallback ==
    /\ pc = "mm_fallback"
    /\ UNCHANGED <<fh, entry, wf, dest_chan, webhooks, mc, mt>>
    /\ \E res \in SendResults(dest_chan, NoticeRequest.thread, NoticeRequest.thread_name,
                              threads, sends) :
          /\ sends' = SendsAfter(NoticeRequest, res)
          /\ threads' = ThreadsAfter(NoticeRequest, res)
          /\ IF res.ok
             THEN AfterSent(SentMessage(dest_chan, NoticeRequest.thread,
                                        NoticeRequest.thread_name, threads, sends))
             ELSE /\ Raise("HTTPException")
                  /\ UNCHANGED mm

NextMessage == MM_Begin \/ MM_SendChunk \/ MM_SendFallback

(***************************************************************************)
(* Inputs                                                                  *)
(***************************************************************************)
\* a message with a body and nothing else
PlainMessage(id, content, channel_name) ==
    [id |-> id, content |-> content, embeds |-> << >>, attachments |-> << >>,
     poll |-> None, reactions |-> << >>, sticker_items |-> << >>, reply_to |-> None,
     author |-> "amy", channel_name |-> channel_name,
     jump_url |-> "https://discord.com/channels/1/2/" \o ToString(id),
     thread |-> None]

\* the custom stickers of the destination guild
GuildStickers == <<[id |-> 31, name |-> "wave", url |-> "https://cdn/31.png"]>>

\* the kinds of destination channel: GuildText, GuildForum, and any other
DestChans(errors) ==
    {[id |-> 900, kind |-> k, stickers |-> GuildStickers, errors |-> errors] :
        k \in {"text", "forum", "voice"}}

\* the webhooks a destination channel may start with
WebhookListings ==
    { << >>,
      <<[id |-> 1, name |-> "other"]>>,
      <<[id |-> 4, name |-> "other"], [id |-> 2, name |-> webhook_name],
        [id |-> 3, name |-> webhook_name]>> }

APoll ==
    [question |-> [emoji |-> None, text |-> Some("Tea?")],
     answers |-> <<[emoji |-> Some([name |-> "tea", id |-> Some(7)]), text |-> Some("yes")],
                   [emoji |-> Some([name |-> "x", id |-> None]), text |-> None]>>,
     results |-> Some(<<12, 3>>)]

\* the lengths of the bodies of the plain messages
BodyLengths == {0, 2, 1999, 2000, 2001, 4000, 4500}

\* source messages for a single migrate_message call
MessageInputs ==
    {PlainMessage(5, Rep("x", n), "general") : n \in BodyLengths}
    \cup {[PlainMessage(5, "", "general") EXCEPT !.attachments = <<"https://cdn/a.png">>],
          [PlainMessage(5, "", "general") EXCEPT !.embeds = <<"embed">>],
          [PlainMessage(5, "", "general") EXCEPT !.reactions = <<"+1">>],
          [PlainMessage(5, "ok", "general") EXCEPT
              !.reply_to = Some([type |-> "DEFAULT", author |-> "bob",
                                 content |-> "a\nb", poll |-> None])],
          [PlainMessage(5, "ok", "general") EXCEPT
              !.reply_to = Some([type |-> "CHANNEL_PINNED_MESSAGE", author |-> "bob",
                                 content |-> "a", poll |-> None])],
          [PlainMessage(5, "", "general") EXCEPT
              !.sticker_items = <<[id |-> 31, name |-> "hello"], [id |-> 32, name |-> "bye"]>>],
          [PlainMessage(5, "vote", "general") EXCEPT !.poll = Some(APoll)]}

\* a thread the destination channel already has
ExistingThread == [id |-> 1, name |-> "old", by |-> "send", message |-> 0]

\* one call migrate_message(orig_msg, dest_chan, thread_id)
InitMessage ==
    /\ wf = << >>
    /\ fh = IdleFH
    /\ dest_chan \in DestChans(ExceptionCodes)
    /\ webhooks \in WebhookListings
    /\ sends = << >>
    /\ pc = "mm_entry"
    /\ outcome = "running"
    /\ retval = PyNone
    /\ mc = IdleMC
    /\ mt = IdleMT
    /\ \E orig_msg \in MessageInputs, thread_id \in {None, Some(0), Some(1)} :
          /\ entry = [fn |-> "migrate_message", orig_msg |-> orig_msg,
                       thread_id |-> thread_id]
          /\ mm = CallMM(orig_msg, thread_id, "done")
          /\ threads = IF thread_id = Some(1) THEN <<ExistingThread>> ELSE << >>

SpecMessage == InitMessage /\ [][NextMessage]_vars

(***************************************************************************)
(* migrate_thread                                                          *)
(***************************************************************************)
\* isinstance(t, GuildForumPost)
IsForumPost(t) == t.kind = "forum_post"

\* isinstance(t, GuildPublicThread): GuildForumPost is a subclass of it
IsPublicThread(t) == t.kind \in {"public_thread", "forum_post"}

\* the guard of lines 283-285, had it looked at the destination only
KindPairOk_DestOnly(orig_thread, dest) == dest.kind \in {"text", "forum"}

\* the guard of lines 283-285
KindPairOk(orig_thread, dest) ==
    \/ IsForumPost(orig_thread) /\ dest.kind = "forum"
    \/ (IsPublicThread(orig_thread) /\ ~ IsForumPost(orig_thread)) /\ dest.kind = "text"

\* parent_msg (lines 288-298)
ParentMsg(orig_thread) ==
    IF IsForumPost(orig_thread) THEN orig_thread.initial_post
    ELSE orig_thread.parent_message

\* the frame of a call migrate_thread(orig_thread, dest_chan)
CallMT(orig_thread, caller) ==
    [active |-> TRUE, orig_thread |-> orig_thread, caller |-> caller,
     history_list |-> << >>, parent_msg |-> None, thread_id |-> Some(0), i |-> 0,
     sent_msg |-> None]

\* the exception `a, b, c = value` raises, if any
UnpackError(value) ==
    IF value.is_none THEN Some("TypeError")
    ELSE IF Len(value.items) # 3 THEN Some("ValueError")
    ELSE None

\* lines 283-298: the kind check, the history and the root message
MT_Begin ==
    /\ pc = "mt_entry"
    /\ UNCHANGED <<fh, entry, wf, dest_chan, webhooks, threads, sends, mc, mm>>
    /\ IF ~ KindPairOk(mt.orig_thread, dest_chan)
       THEN /\ ReturnTo(mt.caller, PyNone)
            /\ mt' = IdleMT
       ELSE LET h == flatten_history_iterator(mt.orig_thread.history, TRUE) IN
            IF h.raised # None
            THEN /\ Raise(Val(h.raised))
                 /\ UNCHANGED mt
            ELSE /\ mt' = [mt EXCEPT !.history_list = h.list,
                                     !.parent_msg = ParentMsg(mt.orig_thread)]
                 /\ pc' = IF ParentMsg(mt.orig_thread) = None
                          THEN "mt_placeholder" ELSE "mt_loop"
                 /\ UNCHANGED <<retval, outcome>>

\* the webhook.send calls of lines 304-309 and 312-315
PlaceholderRequest(webhook) ==
    [kind |-> "placeholder", src |-> 0, unit |-> mc.unit,
     content |-> "This message has been deleted by original author",
     embeds |-> << >>, username |-> webhook.name, reply_to |-> None,
     thread |-> None,
     thread_name |-> IF dest_chan.kind = "forum" THEN Some(mt.orig_thread.name) ELSE None,
     webhook |-> webhook.id]

\* thread_id, had line 310 been left out
PlaceholderThreadId_Forgotten(sent_msg) == Some(0)

\* thread_id after the placeholder post of a forum destination (line 310)
PlaceholderThreadId(sent_msg) == Some(sent_msg.channel.id)

\* lines 301-315: the root is absent; the placeholder is sent
MT_Placeholder ==
    /\ pc = "mt_placeholder"
    /\ UNCHANGED <<fh, entry, wf, dest_chan, mc, mm>>
    /\ LET r == fetch_create_webhook(webhooks)
           req == PlaceholderRequest(r.webhook)
       IN  /\ webhooks' = r.webhooks
           /\ \E res \in SendResults(dest_chan, req.thread, req.thread_name, threads, sends) :
                 /\ sends' = SendsAfter(req, res)
                 /\ threads' = ThreadsAfter(req, res)
                 /\ IF ~ res.ok
                    THEN /\ Raise("HTTPException")
                         /\ UNCHANGED mt
                    ELSE LET sent_msg == SentMessage(dest_chan, req.thread, req.thread_name,
                                                     threads, sends)
                         IN  /\ UNCHANGED <<retval, outcome>>
                             /\ IF dest_chan.kind = "forum"
                                THEN /\ mt' = [mt EXCEPT !.thread_id =
                                                            PlaceholderThreadId(sent_msg)]
                                     /\ pc' = "mt_loop"
                                ELSE /\ mt' = [mt EXCEPT !.sent_msg = Some(sent_msg)]
                                     /\ pc' = "mt_placeholder_thread"

\* lines 316-320: the placeholder of a text destination is made a thread
MT_PlaceholderThread ==
    /\ pc = "mt_placeholder_thread"
    /\ UNCHANGED <<fh, entry, wf, dest_chan, webhooks, sends, mc, mm, retval, outcome>>
    /\ threads' = ThreadsAfterCreate(Val(mt.sent_msg), mt.orig_thread.name)
    /\ mt' = [mt EXCEPT !.thread_id = Some(NewThreadId(threads))]
    /\ pc' = "mt_loop"

\* the condition of line 323: the root of a forum post is migrated first
RootFirstForum(orig_thread, parent_msg, msg) ==
    /\ IsForumPost(orig_thread)
    /\ parent_msg # None
    /\ msg.id # Val(parent_msg).id

\* the condition of line 325: the root of a plain thread is migrated first
RootFirstText(orig_thread, parent_msg) ==
    /\ IsPublicThread(orig_thread) /\ ~ IsForumPost(orig_thread)
    /\ parent_msg # None

\* whether the loop skips a history message (line 332)
SkipsMessage(msg) == is_empty_message(msg)

\* lines 321-334: one iteration of the loop up to its call of migrate_message,
\* from the top of the iteration ("mt_loop") or from line 332 ("mt_body")
MT_Iterate ==
    /\ pc \in {"mt_loop", "mt_body"}
    /\ UNCHANGED <<fh, entry, wf, dest_chan, webhooks, threads, sends, mc>>
    /\ IF mt.i >= Len(mt.history_list)
       THEN /\ ReturnTo(mt.caller, PyNone)
            /\ mt' = IdleMT
            /\ UNCHANGED mm
       ELSE LET msg == mt.history_list[mt.i + 1] IN
            IF pc = "mt_loop" /\ mt.i = 0
               /\ RootFirstForum(mt.orig_thread, mt.parent_msg, msg)
            THEN /\ mm' = CallMM(Val(mt.parent_msg), mt.thread_id, "mt_root_forum_ret")
                 /\ pc' = "mm_entry"
                 /\ UNCHANGED <<mt, retval, outcome>>
            ELSE IF pc = "mt_loop" /\ mt.i = 0
                    /\ RootFirstText(mt.orig_thread, mt.parent_msg)
            THEN /\ mm' = CallMM(Val(mt.parent_msg), None, "mt_root_text_ret")
                 /\ pc' = "mm_entry"
                 /\ UNCHANGED <<mt, retval, outcome>>
            ELSE IF SkipsMessage(msg)
            THEN /\ mt' = [mt EXCEPT !.i = mt.i + 1]
                 /\ pc' = "mt_loop"
                 /\ UNCHANGED <<mm, retval, outcome>>
            ELSE /\ mm' = CallMM(msg, mt.thread_id, "mt_msg_ret")
                 /\ pc' = "mm_entry"
                 /\ UNCHANGED <<mt, retval, outcome>>

\* line 324: ok, thread_id, _ = the value migrate_message returned for the root
MT_RootForumRet ==
    /\ pc = "mt_root_forum_ret"
    /\ UNCHANGED <<fh, entry, wf, dest_chan, webhooks, threads, sends, mc, mm>>
    /\ IF UnpackError(retval) # None
       THEN /\ Raise(Val(UnpackError(retval)))
            /\ UNCHANGED mt
       ELSE /\ mt' = [mt EXCEPT !.thread_id = retval.items[2]]
            /\ pc' = "mt_body"
            /\ UNCHANGED <<retval, outcome>>

\* lines 326-331: ok, _, sent_msg = the value returned for the root, and the
\* thread created from the sent message
MT_RootTextRet ==
    /\ pc = "mt_root_text_ret"
    /\ UNCHANGED <<fh, entry, wf, dest_chan, webhooks, sends, mc, mm>>
    /\ IF UnpackError(retval) # None
       THEN /\ Raise(Val(UnpackError(retval)))
            /\ UNCHANGED <<mt, threads>>
       ELSE IF retval.items[3] = None
       THEN /\ Raise("AttributeError")
            /\ UNCHANGED <<mt, threads>>
       ELSE /\ threads' = ThreadsAfterCreate(Val(retval.items[3]), mt.orig_thread.name)
            /\ mt' = [mt EXCEPT !.thread_id = Some(NewThreadId(threads)),
                                !.sent_msg = retval.items[3]]
            /\ pc' = "mt_body"
            /\ UNCHANGED <<retval, outcome>>

\* lines 334-336: ok, thread_id, _ = the value returned for a history message
MT_MsgRet ==
    /\ pc = "mt_msg_ret"
    /\ UNCHANGED <<fh, entry, wf, dest_chan, webhooks, threads, sends, mc, mm>>
    /\ IF UnpackError(retval) # None
       THEN /\ Raise(Val(UnpackError(retval)))
            /\ UNCHANGED mt
       ELSE IF ~ retval.items[1] /\ retval.items[2] = None
       THEN /\ ReturnTo(mt.caller, PyNone)
            /\ mt' = IdleMT
       ELSE /\ mt' = [mt EXCEPT !.thread_id = retval.items[2], !.i = mt.i + 1]
            /\ pc' = "mt_loop"
            /\ UNCHANGED <<retval, outcome>>

NextThread ==
    \/ NextMessage
    \/ MT_Begin
    \/ MT_Placeholder
    \/ MT_PlaceholderThread
    \/ MT_Iterate
    \/ MT_RootForumRet
    \/ MT_RootTextRet
    \/ MT_MsgRet

(***************************************************************************)
(* Inputs of migrate_thread                                                *)
(***************************************************************************)
\* one error code of each way migrate_message goes on after a failed send: no
\* code and a code that is followed by the fallback notice, and a code that
\* ends the call
ClassCodes == {None, Some(50083), Some(50001)}

\* a body that takes two sends
LongBody == Rep("x", MESSAGE_LEN_LIMIT)

\* the bodies of the messages of a thread
ThreadBodies == {"", "hi", LongBody}

\* an origin thread: a forum post has an initial_post, a plain thread a
\* parent_message; history is what the cursor does, newest message first
Thread(kind, id, name, root, history) ==
    [id |-> id, kind |-> kind, name |-> name,
     initial_post |-> IF kind = "forum_post" THEN root ELSE None,
     parent_message |-> IF kind = "forum_post" THEN None ELSE root,
     history |-> history]

\* the sequences over S of length at most n
SeqUpTo(S, n) == UNION {[1..k -> S] : k \in 0..n}

\* the cursor of a thread whose messages after the root have the given bodies,
\* oldest first, with ids following the thread's: newest first, and the root
\* last when the history holds it
ThreadHistory(id, name, bodies, root_in_history) ==
    [k \in 1..Len(bodies) |->
        MsgEvent(PlainMessage(id + Len(bodies) + 1 - k, bodies[Len(bodies) + 1 - k], name))]
    \o [k \in 1..Len(root_in_history) |-> MsgEvent(root_in_history[k])]

\* the root message of a forum post: its id is the post's, its channel the post
PostRoots(id, name) == {None} \cup {Some(PlainMessage(id, b, name)) : b \in ThreadBodies}

\* the forum posts with the given id: the root present or deleted, the oldest
\* message of the history being the root or not
ForumPosts(id, max_hist) ==
    {Thread("forum_post", id, "topic", root, ThreadHistory(id, "topic", bodies, in_history)) :
        root \in PostRoots(id, "topic"),
        bodies \in SeqUpTo(ThreadBodies, max_hist),
        in_history \in {None, Some(PlainMessage(id, "", "topic")),
                        Some(PlainMessage(id, "hi", "topic")),
                        Some(PlainMessage(id, LongBody, "topic"))}}

\* a forum post whose history holds a root holds its own root
ConsistentPost(post) ==
    \A k \in 1..Len(post.history) :
        Val(post.history[k].msg).id = post.id
            => post.initial_post = post.history[k].msg

\* the plain threads with the given id, started from a message of channel "general"
PublicThreads(id, max_hist) ==
    {Thread("public_thread", id, "topic", root, ThreadHistory(id, "topic", bodies, None)) :
        root \in PostRoots(id, "general"),
        bodies \in SeqUpTo(ThreadBodies, max_hist)}

\* the number of messages after the root in the history of a thread
MaxHist == 2

ThreadInputs ==
    {t \in ForumPosts(20, MaxHist) : ConsistentPost(t)}
    \cup PublicThreads(20, MaxHist)
    \cup {Thread("private_thread", 20, "topic", None, << >>)}

\* one call migrate_thread(orig_thread, dest_chan)
InitThread ==
    /\ wf = << >>
    /\ fh = IdleFH
    /\ dest_chan \in DestChans(ClassCodes)
    /\ webhooks \in {<< >>, <<[id |-> 2, name |-> webhook_name]>>}
    /\ threads = << >>
    /\ sends = << >>
    /\ pc = "mt_entry"
    /\ outcome = "running"
    /\ retval = PyNone
    /\ mc = IdleMC
    /\ mm = IdleMM
    /\ \E orig_thread \in ThreadInputs :
          /\ entry = [fn |-> "migrate_thread", orig_thread |-> orig_thread]
          /\ mt = CallMT(orig_thread, "done")

SpecThread == InitThread /\ [][NextThread]_vars

(***************************************************************************)
(* migrate_channel                                                         *)
(***************************************************************************)
\* the frame of a call migrate_channel(orig_chan, dest_chan, client)
CallMC(orig_chan) ==
    [active |-> TRUE, unit |-> 0, orig_chan |-> orig_chan, i |-> 0,
     archived_posts_id |-> << >>, active_posts |-> << >>, messages |-> << >>]

\* the frame of migrate_channel as it calls out for the unit (message or post)
\* `unit`, the next one of its loop
NextUnit(unit) == [mc EXCEPT !.i = mc.i + 1, !.unit = unit]

\* archived_posts_id (lines 346-348): the ids listed, reversed
ArchivedPostsId(orig_chan) ==
    Reverse([k \in 1..Len(orig_chan.archived_threads) |-> orig_chan.archived_threads[k].id])

\* orig_chan.fetch_post(id=i)
fetch_post(orig_chan, id) ==
    CHOOSE post \in {orig_chan.archived_threads[k] : k \in 1..Len(orig_chan.archived_threads)} :
        post.id = id

\* active_posts, had line 353 been left out
ActivePosts_AsListed(orig_chan) == orig_chan.posts

\* active_posts (lines 352-353): the posts fetched, reversed
ActivePosts(orig_chan) == Reverse(orig_chan.posts)

\* line 360, had it left the history as fetched
ChannelHistoryReversed_Not == FALSE

\* whether line 360 asks for the history oldest first
ChannelHistoryReversed == TRUE

\* lines 342-360: the kind checks and the first listing
MC_Begin ==
    /\ pc = "mc_entry"
    /\ UNCHANGED <<fh, entry, wf, dest_chan, webhooks, threads, sends, mt, mm>>
    /\ IF mc.orig_chan.kind = "forum" /\ dest_chan.kind = "forum"
       THEN /\ mc' = [mc EXCEPT !.archived_posts_id = ArchivedPostsId(mc.orig_chan)]
            /\ pc' = "mc_archived"
            /\ UNCHANGED <<retval, outcome>>
       ELSE IF mc.orig_chan.kind = "text" /\ dest_chan.kind = "text"
       THEN LET h == flatten_history_iterator(mc.orig_chan.history,
                                              ChannelHistoryReversed)
            IN  IF h.raised # None
                THEN /\ Raise(Val(h.raised))
                     /\ UNCHANGED mc
                ELSE /\ mc' = [mc EXCEPT !.messages = h.list]
                     /\ pc' = "mc_text"
                     /\ UNCHANGED <<retval, outcome>>
       ELSE /\ ReturnTo("done", PyNone)
            /\ mc' = IdleMC

\* lines 349-353: the loop over the archived posts, then the active posts fetched
MC_Archived ==
    /\ pc = "mc_archived"
    /\ UNCHANGED <<fh, entry, wf, dest_chan, webhooks, threads, sends, mm, retval, outcome>>
    /\ IF mc.i < Len(mc.archived_posts_id)
       THEN LET post == fetch_post(mc.orig_chan, mc.archived_posts_id[mc.i + 1]) IN
            /\ mt' = CallMT(post, "mc_archived")
            /\ mc' = NextUnit(post.id)
            /\ pc' = "mt_entry"
       ELSE /\ mc' = [mc EXCEPT !.active_posts = ActivePosts(mc.orig_chan), !.i = 0]
            /\ pc' = "mc_active"
            /\ UNCHANGED mt

\* lines 354-355: the loop over the active posts
MC_Active ==
    /\ pc = "mc_active"
    /\ UNCHANGED <<fh, entry, wf, dest_chan, webhooks, threads, sends, mm>>
    /\ IF mc.i < Len(mc.active_posts)
       THEN /\ mt' = CallMT(mc.active_posts[mc.i + 1], "mc_active")
            /\ mc' = NextUnit(mc.active_posts[mc.i + 1].id)
            /\ pc' = "mt_entry"
            /\ UNCHANGED <<retval, outcome>>
       ELSE /\ ReturnTo("done", PyNone)
            /\ mc' = IdleMC
            /\ UNCHANGED mt

\* lines 361-365: the loop over the messages of a text channel
MC_Text ==
    /\ pc = "mc_text"
    /\ UNCHANGED <<fh, entry, wf, dest_chan, webhooks, threads, sends>>
    /\ IF mc.i < Len(mc.messages)
       THEN LET msg == mc.messages[mc.i + 1] IN
            /\ mc' = NextUnit(msg.id)
            /\ UNCHANGED <<retval, outcome>>
            /\ IF msg.thread # None
               THEN /\ mt' = CallMT(Val(msg.thread), "mc_text")
                    /\ pc' = "mt_entry"
                    /\ UNCHANGED mm
               ELSE /\ mm' = CallMM(msg, None, "mc_text")
                    /\ pc' = "mm_entry"
                    /\ UNCHANGED mt
       ELSE /\ ReturnTo("done", PyNone)
            /\ mc' = IdleMC
            /\ UNCHANGED <<mt, mm>>

Next ==
    \/ NextThread
    \/ MC_Begin
    \/ MC_Archived
    \/ MC_Active
    \/ MC_Text

(***************************************************************************)
(* Inputs of migrate_channel                                               *)
(***************************************************************************)
\* the number of messages of an origin text channel
MaxMsgs == 2

\* the number of archived posts, and of active posts, of an origin forum
MaxPosts == 2

\* the bodies of the messages of an origin text channel
ChannelBodies == {"", "hi"}

\* the events of the cursor of a thread started from a channel message: no
\* message, one reply, or a first fetch the platform denies
ReplyHistories(id) ==
    { << >>,
      <<MsgEvent(PlainMessage(id + 1, "re", "topic"))>>,
      <<HttpEvent(Some(50001))>> }

\* the message `id` of an origin text channel: with or without a thread of its
\* own, whose parent_message is the message itself or is not to be had
ChannelMessages(id) ==
    {PlainMessage(id, b, "general") : b \in ChannelBodies}
    \cup {[PlainMessage(id, "hi", "general") EXCEPT
              !.thread = Some(Thread("public_thread", id, "topic",
                                     Some(PlainMessage(id, "hi", "general")), history))] :
            history \in ReplyHistories(id)}
    \cup {[PlainMessage(id, "hi", "general") EXCEPT
              !.thread = Some(Thread("public_thread", id, "topic", None,
                                     <<MsgEvent(PlainMessage(id + 1, "re", "topic"))>>))]}
    \cup {[PlainMessage(id, "", "general") EXCEPT
              !.thread = Some(Thread("public_thread", id, "topic",
                                     Some(PlainMessage(id, "", "general")),
                                     <<MsgEvent(PlainMessage(id + 1, "re", "topic"))>>))]}

\* the cursor of an origin text channel of n messages, the newest first; the
\* older a message, the smaller its id
ChannelHistories ==
    UNION {{[k \in 1..n |-> MsgEvent(f[k])] :
               f \in {g \in [1..n -> UNION {ChannelMessages(10 * j) : j \in 1..n}] :
                         \A k \in 1..n : g[k].id = 10 * (n + 1 - k)}} :
           n \in 0..MaxMsgs}

\* the shapes of the posts of an origin forum
PostShapes == {"root_first", "root_apart", "root_empty", "root_deleted"}

\* the post `id` of an origin forum: the root the oldest message of its history
\* and a reply, the root not in the history, the root empty, or the root deleted
ForumPost(id, shape) ==
    CASE shape = "root_first" ->
            Thread("forum_post", id, "topic", Some(PlainMessage(id, "hi", "topic")),
                   ThreadHistory(id, "topic", <<"re">>, Some(PlainMessage(id, "hi", "topic"))))
      [] shape = "root_apart" ->
            Thread("forum_post", id, "topic", Some(PlainMessage(id, "hi", "topic")),
                   ThreadHistory(id, "topic", <<"re">>, None))
      [] shape = "root_empty" ->
            Thread("forum_post", id, "topic", Some(PlainMessage(id, "", "topic")),
                   ThreadHistory(id, "topic", << >>, Some(PlainMessage(id, "", "topic"))))
      [] shape = "root_deleted" ->
            Thread("forum_post", id, "topic", None,
                   ThreadHistory(id, "topic", <<"re">>, None))

\* the listings of at most MaxPosts posts of one shape with ids base + 10,
\* base + 20, ..., as the platform lists them: the newest, of the largest id, first
PostListings(base, shape) ==
    {[k \in 1..n |-> ForumPost(base + 10 * (n + 1 - k), shape)] : n \in 0..MaxPosts}

\* the origin channels: text channels, forums, and a channel of another kind
OrigChans ==
    {[kind |-> "text", history |-> h, archived_threads |-> << >>, posts |-> << >>] :
        h \in ChannelHistories}
    \cup {[kind |-> "forum", history |-> << >>, archived_threads |-> a, posts |-> p] :
            a \in UNION {PostListings(100, shape) : shape \in PostShapes},
            p \in UNION {PostListings(200, shape) : shape \in PostShapes}}
    \cup {[kind |-> "voice", history |-> << >>, archived_threads |-> << >>, posts |-> << >>]}

\* one call migrate_channel(orig_chan, dest_chan, client)
Init ==
    /\ wf = << >>
    /\ fh = IdleFH
    /\ dest_chan \in DestChans(ClassCodes)
    /\ webhooks = << >>
    /\ threads = << >>
    /\ sends = << >>
    /\ pc = "mc_entry"
    /\ outcome = "running"
    /\ retval = PyNone
    /\ mt = IdleMT
    /\ mm = IdleMM
    /\ \E orig_chan \in OrigChans :
          /\ entry = [fn |-> "migrate_channel", orig_chan |-> orig_chan]
          /\ mc = CallMC(orig_chan)

Spec == Init /\ [][Next]_vars

\* the origin channels of at most one message, one archived and one active post
SmallOrigChans ==
    {c \in OrigChans :
        Len(c.history) <= 1 /\ Len(c.archived_threads) <= 1 /\ Len(c.posts) <= 1}

\* the origin threads of at most one message after the root
SmallThreadInputs ==
    {t \in ThreadInputs :
        Len(t.history) <= 1 + (IF ParentMsg(t) = None THEN 0 ELSE 1)}

\* one call of either entry point, migrate_channel or migrate_thread, of any
\* kind of origin with any kind of destination
InitKinds ==
    /\ wf = << >>
    /\ fh = IdleFH
    /\ dest_chan \in DestChans(ClassCodes)
    /\ webhooks \in {<< >>, <<[id |-> 2, name |-> webhook_name]>>}
    /\ threads = << >>
    /\ sends = << >>
    /\ outcome = "running"
    /\ retval = PyNone
    /\ mm = IdleMM
    /\ \/ \E orig_chan \in SmallOrigChans :
             /\ entry = [fn |-> "migrate_channel", orig_chan |-> orig_chan]
             /\ mc = CallMC(orig_chan)
             /\ mt = IdleMT
             /\ pc = "mc_entry"
       \/ \E orig_thread \in SmallThreadInputs :
             /\ entry = [fn |-> "migrate_thread", orig_thread |-> orig_thread]
             /\ mc = IdleMC
             /\ mt = CallMT(orig_thread, "done")
             /\ pc = "mt_entry"

SpecKinds == InitKinds /\ [][Next]_vars

(***************************************************************************)
(* fetch_create_webhook, step by step                                      *)
(*                                                                         *)
(* A flow lists the webhooks of the channel (line 99), and then creates    *)
(* one or takes one of those it listed (lines 100-106).  Another flow may  *)
(* take its steps in between.                                              *)
(***************************************************************************)
\* the number of calls a flow makes, one after the other
MaxCalls == 2

\* the number of flows
MaxFlows == 2

\* the number of webhooks the channel starts with
MaxListed == 3

\* line 99: webhooks = await dest_chan.fetch_webhooks()
WH_Fetch(p) ==
    /\ wf[p].pc = "idle"
    /\ Len(wf[p].results) < MaxCalls
    /\ wf' = [wf EXCEPT ![p].pc = "fetched", ![p].webhooks = webhooks]
    /\ UNCHANGED <<fh, entry, dest_chan, webhooks, threads, sends, pc, outcome, retval,
                   mc, mt, mm>>

\* lines 100-106: the webhook is created or picked, and returned
WH_Resolve(p) ==
    /\ wf[p].pc = "fetched"
    /\ LET fetched == wf[p].webhooks
           creates == MustCreateWebhook(fetched)
           webhook == IF creates THEN create_webhook(webhooks)
                      ELSE available_webhooks(fetched)[1]
       IN  /\ webhooks' = IF creates THEN Append(webhooks, webhook) ELSE webhooks
           /\ wf' = [wf EXCEPT
                       ![p].pc = "idle",
                       ![p].results =
                           Append(@, [webhook |-> webhook, listed |-> fetched,
                                      created |-> creates, after |-> webhooks'])]
    /\ UNCHANGED <<fh, entry, dest_chan, threads, sends, pc, outcome, retval, mc, mt, mm>>

NextWebhook ==
    \/ \E p \in DOMAIN wf : WH_Fetch(p)
    \/ \E p \in DOMAIN wf : WH_Resolve(p)

\* the webhooks a channel may start with: any names, in any listing order
InitialWebhooks ==
    UNION {{[k \in 1..n |-> [id |-> k, name |-> names[k]]] :
               names \in [1..n -> {webhook_name, "other"}]} :
           n \in 0..MaxListed}

\* one flow or several, each calling fetch_create_webhook(dest_chan) up to
\* MaxCalls times
InitWebhook ==
    /\ fh = IdleFH
    /\ dest_chan \in {d \in DestChans(ClassCodes) : d.kind = "text"}
    /\ webhooks \in InitialWebhooks
    /\ threads = << >>
    /\ sends = << >>
    /\ pc = "done"
    /\ outcome = "running"
    /\ retval = PyNone
    /\ mc = IdleMC
    /\ mt = IdleMT
    /\ mm = IdleMM
    /\ \E n \in 1..MaxFlows :
          /\ entry = [fn |-> "fetch_create_webhook", flows |-> n, initial |-> webhooks]
          /\ wf = [p \in 1..n |-> [pc |-> "idle", webhooks |-> << >>, results |-> << >>]]

SpecWebhook == InitWebhook /\ [][NextWebhook]_vars

(***************************************************************************)
(* flatten_history_iterator, step by step                                  *)
(*                                                                         *)
(* The remote cursor is a finite sequence of events followed by what every *)
(* later call of __anext__ does: it raises StopAsyncIteration (tail None), *)
(* or it fails in the same way on every call (the tail is that event).     *)
(***************************************************************************)
\* StopAsyncIteration
StopEvent == [kind |-> "stop", msg |-> None, code |-> None]

\* what the call of history.__anext__() at position n of the cursor does
CursorEvent(cursor, n) ==
    IF n <= Len(cursor.events) THEN cursor.events[n]
    ELSE IF cursor.tail = None THEN StopEvent
    ELSE Val(cursor.tail)

\* the position of the cursor after the call at position n
CursorAfter(cursor, n) == IF n <= Len(cursor.events) THEN n + 1 ELSE n

\* the frame of a call flatten_history_iterator(history, reverse)
CallFH(history, reverse) ==
    [active |-> TRUE, history |-> history, reverse |-> reverse, pos |-> 1,
     ret_list |-> << >>, code |-> None]

\* the list a call returns
PyList(items) == [is_none |-> FALSE, items |-> items]

\* lines 47-52 and 81: msg = await history.__anext__(), and the except clause
\* that takes what it raised
FH_Next ==
    /\ pc = "fh_next"
    /\ UNCHANGED <<entry, wf, dest_chan, webhooks, threads, sends, outcome, retval,
                   mc, mt, mm>>
    /\ LET e == CursorEvent(fh.history, fh.pos)
           after == CursorAfter(fh.history, fh.pos)
       IN  IF e.kind = "msg"
           THEN /\ fh' = [fh EXCEPT !.ret_list = Append(@, Val(e.msg)), !.pos = after]
                /\ pc' = "fh_next"
           ELSE IF e.kind = "stop"
           THEN /\ fh' = fh
                /\ pc' = "fh_end"
           ELSE IF e.kind = "http"
           THEN /\ fh' = [fh EXCEPT !.code = e.code, !.pos = after]
                /\ pc' = "fh_except"
           ELSE /\ fh' = [fh EXCEPT !.pos = after]
                /\ pc' = "fh_pass"

\* lines 53-80: match int(e.code), inside the handler of HTTPException; what
\* int() raises on a missing code is a TypeError, which no clause takes
FH_Except ==
    /\ pc = "fh_except"
    /\ UNCHANGED <<entry, wf, dest_chan, webhooks, threads, sends, mc, mt, mm>>
    /\ IF fh.code = None
       THEN /\ Raise("TypeError")
            /\ UNCHANGED fh
       ELSE /\ fh' = [fh EXCEPT !.code = None]
            /\ pc' = IF Val(fh.code) \in HistoryStopCodes THEN "fh_end" ELSE "fh_next"
            /\ UNCHANGED <<outcome, retval>>

\* lines 81-82: except Exception: pass
FH_Pass ==
    /\ pc = "fh_pass"
    /\ pc' = "fh_next"
    /\ UNCHANGED <<fh, entry, wf, dest_chan, webhooks, threads, sends, outcome, retval,
                   mc, mt, mm>>

\* lines 83-85: the list is reversed if asked for, and returned
FH_End ==
    /\ pc = "fh_end"
    /\ UNCHANGED <<entry, wf, dest_chan, webhooks, threads, sends, mc, mt, mm>>
    /\ ReturnTo("done", PyList(IF fh.reverse THEN Reverse(fh.ret_list) ELSE fh.ret_list))
    /\ fh' = IdleFH

NextHistory == FH_Next \/ FH_Except \/ FH_Pass \/ FH_End

\* the number of events of a cursor before its tail
MaxEvents == 3

\* the events of a cursor at position k: a message, an HTTPException with any
\* code or none, another exception
EventsAt(k) ==
    {MsgEvent(PlainMessage(k, "hi", "general"))}
    \cup {HttpEvent(c) : c \in ExceptionCodes}
    \cup {OtherEvent}

\* what a cursor may do on every call after its events: end the sequence, or
\* fail with a code the handler passes over, named or not, or with another
\* exception
CursorTails ==
    {None, Some(HttpEvent(Some(10008))), Some(HttpEvent(Some(40005))), Some(OtherEvent)}

RECURSIVE EventSeqs(_)
\* the sequences of n events
EventSeqs(n) ==
    IF n = 0 THEN {<< >>}
    ELSE {Append(ev, e) : ev \in EventSeqs(n - 1), e \in EventsAt(n)}

\* the cursors: at most max_events events, then the tail
Cursors(max_events) ==
    UNION {{[events |-> ev, tail |-> tail] : ev \in EventSeqs(n), tail \in CursorTails} :
           n \in 0..max_events}

\* one call flatten_history_iterator(history, reverse)
InitHistory ==
    /\ wf = << >>
    /\ dest_chan \in {d \in DestChans(ClassCodes) : d.kind = "text"}
    /\ webhooks = << >>
    /\ threads = << >>
    /\ sends = << >>
    /\ pc = "fh_next"
    /\ outcome = "running"
    /\ retval = PyNone
    /\ mc = IdleMC
    /\ mt = IdleMT
    /\ mm = IdleMM
    /\ \E history \in Cursors(MaxEvents), reverse \in BOOLEAN :
          /\ entry = [fn |-> "flatten_history_iterator", history |-> history,
                       reverse |-> reverse]
          /\ fh = CallFH(history, reverse)

SpecHistory == InitHistory /\ [][NextHistory]_vars

\* the coroutine is kept running: a step it can take is taken
SpecHistoryFair == SpecHistory /\ WF_vars(NextHistory)

(***************************************************************************)
(* Properties of migrate_message                                           *)
(***************************************************************************)
\* the flow is one finished migrate_message call
MessageCallDone == entry.fn = "migrate_message" /\ pc = "done"

\* the codes the claims call terminal denials of a send
TerminalDenialCodes == {10003, 10008, 50001, 50013}

RECURSIVE ConcatContents(_)
\* the contents of the sends of a log, concatenated in send order
ConcatContents(log) ==
    IF Len(log) = 0 THEN "" ELSE Head(log).content \o ConcatContents(Tail(log))

\* a message with a body and no reply reference, attachments, stickers or poll
IsBodyOnly(msg) ==
    /\ msg.reply_to = None
    /\ Len(msg.attachments) = 0
    /\ Len(msg.sticker_items) = 0
    /\ msg.poll = None

\* ceil(a / b)
CeilDiv(a, b) == (a + b - 1) \div b

\* C2: when a chunk send of migrate_message fails with a terminal denial code
\* (10003, 10008, 50001, 50013), migrate_message returns the triple
\* (False, None, None).
C2_DeniedReturnsTriple ==
    (/\ MessageCallDone
     /\ outcome = "returned"
     /\ Len(sends) > 0
     /\ sends[Len(sends)].kind = "chunk"
     /\ ~ sends[Len(sends)].ok
     /\ sends[Len(sends)].code # None
     /\ Val(sends[Len(sends)].code) \in TerminalDenialCodes)
    => retval = PyTuple(<<FALSE, None, None>>)

\* C9: for a source message with a body of length L and no reply reference,
\* attachments, stickers or poll, migrate_message with all sends succeeding makes
\* exactly ceil(L / limit) sends, each of content length at most the limit, and
\* the contents concatenated in send order are the body.
C9_ChunkingRoundTrip ==
    (/\ MessageCallDone
     /\ outcome = "returned"
     /\ dest_chan.kind \in {"text", "forum"}
     /\ IsBodyOnly(entry.orig_msg)
     /\ Failures(sends) = 0)
    => /\ Len(sends) = CeilDiv(Len(entry.orig_msg.content), MESSAGE_LEN_LIMIT)
       /\ \A k \in 1..Len(sends) : Len(sends[k].content) <= MESSAGE_LEN_LIMIT
       /\ ConcatContents(sends) = entry.orig_msg.content

\* C10: migrate_message called with thread_id = None on a text-channel
\* destination makes sends that carry neither a thread target nor a thread
\* name, and, its sends succeeding, returns (True, None, the last sent message).
C10_PlainMessage ==
    (/\ entry.fn = "migrate_message"
     /\ entry.thread_id = None
     /\ dest_chan.kind = "text")
    => /\ \A k \in 1..Len(sends) : sends[k].thread = None /\ sends[k].thread_name = None
       /\ (pc = "done" /\ Failures(sends) = 0)
          => /\ outcome = "returned"
             /\ Len(sends) >= 1
             /\ sends[Len(sends)].sent # None
             /\ retval = PyTuple(<<TRUE, None, sends[Len(sends)].sent>>)

\* C10's case: a plain call on a text channel that sent two chunks and returned
C10_Witness ==
    /\ MessageCallDone
    /\ entry.thread_id = None
    /\ dest_chan.kind = "text"
    /\ Failures(sends) = 0
    /\ Len(sends) = 2
    /\ retval = PyTuple(<<TRUE, None, sends[2].sent>>)

\* send k of the log failed with one of the codes
FailedWith(log, k, codes) ==
    /\ ~ log[k].ok
    /\ log[k].code # None
    /\ Val(log[k].code) \in codes

\* send k of the log failed with a code that is no terminal denial, or none
FailedNonTerminal(log, k) ==
    /\ ~ log[k].ok
    /\ log[k].code = None \/ Val(log[k].code) \notin TerminalDenialCodes

\* the sends of the log of the kind, as positions
SendsOfKind(log, kind) == {k \in 1..Len(log) : log[k].kind = kind}

\* C13: when a chunk send of migrate_message fails with code 10003, 10008,
\* 50001 or 50013, the call makes no further send, neither a fallback notice nor
\* a remaining chunk: the failed send is its last and the call has returned.
C13_TerminalDenialAborts ==
    entry.fn = "migrate_message"
    => \A k \in SendsOfKind(sends, "chunk") :
          FailedWith(sends, k, TerminalDenialCodes)
             => /\ k = Len(sends)
                /\ pc = "done"
                /\ outcome = "returned"

\* C13's case: a message of three chunks whose second chunk was denied with
\* code 50013; the call ended with two sends
C13_Witness ==
    /\ MessageCallDone
    /\ Len(Chunks(msg_text(entry.orig_msg, dest_chan.stickers))) = 3
    /\ Len(sends) = 2
    /\ sends[1].ok
    /\ FailedWith(sends, 2, {50013})

\* C14: when chunk sends of a message fail, each with a code that is no terminal
\* denial (or with no code), and every notice is delivered, migrate_message sends
\* exactly one fallback notice for the message, to the thread target or with
\* the thread name of the failed send, and returns success.
C14_SingleFallbackNotice ==
    (/\ MessageCallDone
     /\ outcome = "returned"
     /\ \E k \in SendsOfKind(sends, "chunk") : ~ sends[k].ok
     /\ \A k \in SendsOfKind(sends, "chunk") : ~ sends[k].ok => FailedNonTerminal(sends, k)
     /\ \A k \in SendsOfKind(sends, "notice") : sends[k].ok)
    => /\ Cardinality(SendsOfKind(sends, "notice")) = 1
       /\ \A k \in SendsOfKind(sends, "notice") :
             /\ sends[k - 1].kind = "chunk" /\ ~ sends[k - 1].ok
             /\ sends[k].thread = sends[k - 1].thread
             /\ sends[k].thread_name = sends[k - 1].thread_name
       /\ ~ retval.is_none /\ retval.items[1] = TRUE

\* C17: within one migrate_message call the first send names no reply target,
\* and every later chunk send names the message the send just before it
\* returned, that of the previous chunk or of the notice sent in its place.
C17_ReplyChaining ==
    entry.fn = "migrate_message"
    => /\ Len(sends) >= 1 => sends[1].reply_to = None
       /\ \A k \in SendsOfKind(sends, "chunk") :
             k > 1 => /\ sends[k - 1].ok
                      /\ sends[k].reply_to = Some(Val(sends[k - 1].sent).id)

\* C17's case: a message of three chunks whose second chunk failed; the third
\* chunk replies to the notice sent in place of the second
C17_Witness ==
    /\ MessageCallDone
    /\ outcome = "returned"
    /\ Len(sends) = 4
    /\ sends[1].kind = "chunk" /\ sends[1].ok
    /\ sends[2].kind = "chunk" /\ ~ sends[2].ok
    /\ sends[3].kind = "notice" /\ sends[3].ok
    /\ sends[4].kind = "chunk" /\ sends[4].ok
    /\ sends[4].reply_to = Some(Val(sends[3].sent).id)

(***************************************************************************)
(* Properties of migrate_thread                                            *)
(***************************************************************************)
\* the flow is a migrate_thread call that passed the kind check
ThreadCall == entry.fn = "migrate_thread" /\ KindPairOk(entry.orig_thread, dest_chan)

\* the history migrate_thread fetched for the thread it was called with
FetchedHistory == flatten_history_iterator(entry.orig_thread.history, TRUE).list

\* send k asked the platform to create a thread: thread_name set, thread unset
CreationRequest(k) == sends[k].thread_name # None /\ sends[k].thread = None

\* C1: in a migrate_thread run of a forum post with its root present into a
\* forum channel, once a send has created the destination thread every later
\* send of the run targets that thread id, and at most one send carries a
\* thread-creation request (both counted here over the sends the platform
\* carried out, the reading kindest to the code).
C1_ThreadIdLifecycle ==
    (/\ ThreadCall
     /\ IsForumPost(entry.orig_thread)
     /\ entry.orig_thread.initial_post # None)
    => /\ \A i \in 1..Len(sends) : \A j \in (i + 1)..Len(sends) :
             (sends[i].ok /\ CreationRequest(i) /\ sends[j].ok)
                 => sends[j].thread = Some(Val(sends[i].sent).channel.id)
       /\ Cardinality({k \in 1..Len(sends) : sends[k].ok /\ CreationRequest(k)}) <= 1

\* C6: in migrate_thread with a root message present and a non-empty fetched
\* history, at least one send is made for the root, empty or not.
C6_RootAlwaysMigrated ==
    (/\ ThreadCall
     /\ ParentMsg(entry.orig_thread) # None
     /\ Len(FetchedHistory) > 0
     /\ pc = "done")
    => \E k \in 1..Len(sends) : sends[k].src = Val(ParentMsg(entry.orig_thread)).id

\* the thread id migrate_thread obtains from the placeholder, which is the
\* first send of the run: the post it created in a forum, the thread created
\* from it in a text channel
PlaceholderThread ==
    IF dest_chan.kind = "forum" THEN Val(sends[1].sent).channel.id ELSE threads[1].id

\* C7: in migrate_thread with the root absent, the placeholder send (and, for a
\* text-channel destination, the creation of a thread from the placeholder)
\* comes before any send of a history message, and every send of a history
\* message targets the thread obtained from the placeholder.
C7_DeletedRoot ==
    (/\ ThreadCall
     /\ ParentMsg(entry.orig_thread) = None)
    => \A k \in 1..Len(sends) :
          sends[k].kind # "placeholder"
             => /\ k > 1
                /\ sends[1].kind = "placeholder" /\ sends[1].ok
                /\ dest_chan.kind = "text"
                      => /\ Len(threads) >= 1
                         /\ threads[1].by = "create_thread"
                         /\ threads[1].message = Val(sends[1].sent).id
                /\ sends[k].thread = Some(PlaceholderThread)

\* C7's case: a rootless forum post whose two history messages were migrated,
\* one of them as a fallback notice
C7_Witness ==
    /\ ThreadCall
    /\ ParentMsg(entry.orig_thread) = None
    /\ dest_chan.kind = "forum"
    /\ pc = "done" /\ outcome = "returned"
    /\ Len(sends) >= 4
    /\ \E k \in 1..Len(sends) : sends[k].kind = "notice" /\ sends[k].ok

(***************************************************************************)
(* Properties of fetch_create_webhook                                      *)
(***************************************************************************)
\* a single flow calls fetch_create_webhook, one call after the other
SingleFlow == entry.fn = "fetch_create_webhook" /\ Len(wf) = 1

\* whether a listing holds a webhook named "DBF"
HasNamed(listed) == \E k \in 1..Len(listed) : listed[k].name = webhook_name

\* the first webhook named "DBF" of a listing that holds one
FirstNamed(listed) ==
    listed[CHOOSE k \in 1..Len(listed) :
              /\ listed[k].name = webhook_name
              /\ \A j \in 1..(k - 1) : listed[j].name # webhook_name]

\* C8: in a single sequential flow, fetch_create_webhook creates a webhook only
\* when the channel has none named "DBF"; when one or more exist it returns the
\* first one listed and leaves the webhooks of the channel as they are; two
\* calls in sequence return the same webhook.
C8_IdempotentRelay ==
    SingleFlow
    => \A k \in 1..Len(wf[1].results) :
          LET r == wf[1].results[k] IN
          /\ r.created <=> ~ HasNamed(r.listed)
          /\ r.created => r.after = Append(r.listed, r.webhook)
          /\ ~ r.created => (r.webhook = FirstNamed(r.listed) /\ r.after = r.listed)
          /\ r.webhook = wf[1].results[1].webhook

\* C8's case: two calls in sequence on a channel that had a webhook of another
\* name only; the first call created the webhook the second returned
C8_Witness ==
    /\ SingleFlow
    /\ Len(wf[1].results) = 2
    /\ wf[1].results[1].created
    /\ Len(wf[1].results[1].listed) = 1
    /\ ~ wf[1].results[2].created

\* the webhooks of the channel named "DBF", as positions
NamedWebhooks == {k \in 1..Len(webhooks) : webhooks[k].name = webhook_name}

\* C19: on a channel that starts with no webhook named "DBF", a single flow
\* never leaves two webhooks of that name (two flows can: C19_Witness).
C19_SingleFlowOneRelay ==
    (SingleFlow /\ ~ HasNamed(entry.initial))
    => Cardinality(NamedWebhooks) <= 1

\* C19's case: two flows on a channel that started with no webhook named "DBF"
\* both listed the webhooks before either created one, and each created one
C19_Witness ==
    /\ entry.fn = "fetch_create_webhook"
    /\ Len(wf) = 2
    /\ ~ HasNamed(entry.initial)
    /\ \A p \in 1..2 :
          /\ Len(wf[p].results) = 1
          /\ wf[p].results[1].created
          /\ wf[p].results[1].listed = entry.initial
    /\ Cardinality(NamedWebhooks) = 2

(***************************************************************************)
(* Properties of migrate_channel                                           *)
(***************************************************************************)
\* the flow is a migrate_channel call
ChannelCall == entry.fn = "migrate_channel"

\* a migrate_channel call from a text channel to a text channel
TextToText == ChannelCall /\ entry.orig_chan.kind = "text" /\ dest_chan.kind = "text"

\* the messages a cursor delivers
Delivered(history) ==
    {Val(history[k].msg) : k \in {j \in 1..Len(history) : history[j].kind = "msg"}}

\* the threads of the origin channel: those its messages own, and its posts
OriginThreads ==
    {Val(m.thread) : m \in {d \in Delivered(entry.orig_chan.history) : d.thread # None}}
    \cup {entry.orig_chan.archived_threads[k] : k \in 1..Len(entry.orig_chan.archived_threads)}
    \cup {entry.orig_chan.posts[k] : k \in 1..Len(entry.orig_chan.posts)}

\* the root messages of the threads of the origin channel that have one
OriginRoots == {Val(ParentMsg(t)) : t \in {u \in OriginThreads : ParentMsg(u) # None}}

\* every message of the origin channel and of its threads
OriginMessages ==
    Delivered(entry.orig_chan.history)
    \cup OriginRoots
    \cup UNION {Delivered(t.history) : t \in OriginThreads}

\* C3: migrate_channel never ends with an error under remote send failures,
\* whatever the sends do: it returns normally.
C3_NeverRaises == ChannelCall => outcome \in {"running", "returned"}

\* send k went to the destination channel itself, not into a thread
TopLevel(k) == sends[k].thread = None /\ sends[k].thread_name = None

\* C4: in a text-channel to text-channel run whose cursor yields the messages
\* newest first and whose sends all succeed, for source messages a older than
\* b, every top-level send made for a (for a itself or as the root of a's
\* thread) comes before every send made for b.
C4_Ordering ==
    (TextToText /\ Failures(sends) = 0)
    => \A i \in 1..Len(sends) : \A j \in 1..Len(sends) :
          (TopLevel(i) /\ sends[i].unit < sends[j].unit) => i < j

\* C4's case: a finished run of two messages, the older one with a thread: its
\* root went to the channel, a reply into the thread, then the newer message
C4_Witness ==
    /\ TextToText
    /\ pc = "done" /\ outcome = "returned"
    /\ Failures(sends) = 0
    /\ Len(sends) = 3
    /\ TopLevel(1) /\ ~ TopLevel(2) /\ TopLevel(3)
    /\ sends[1].unit = sends[2].unit
    /\ sends[2].unit < sends[3].unit

\* C5: on every migration path a message with no body, embeds, poll, reactions
\* or stickers causes no send (here: none that reaches the destination), unless
\* it is the root that establishes a thread.
C5_EmptyNeverSent ==
    ChannelCall
    => \A k \in 1..Len(sends) : \A m \in OriginMessages :
          (/\ sends[k].ok
           /\ sends[k].kind # "placeholder"
           /\ sends[k].src = m.id
           /\ is_empty_message(m))
              => m \in OriginRoots

(***************************************************************************)
(* Properties of flatten_history_iterator                                  *)
(***************************************************************************)
\* the flow is a flatten_history_iterator call
HistoryCall == entry.fn = "flatten_history_iterator"

\* event k of a cursor is an error with one of the codes the claims say stop
\* the read
StopsAt(events, k) ==
    /\ events[k].kind = "http"
    /\ events[k].code # None
    /\ Val(events[k].code) \in {50083, 10003, 50001, 50013}

\* the events of a cursor before the first one that stops the read
BeforeStop(events) ==
    SubSeq(events, 1,
           CHOOSE n \in 0..Len(events) :
              /\ \A k \in 1..n : ~ StopsAt(events, k)
              /\ n < Len(events) => StopsAt(events, n + 1))

\* the messages the cursor delivered before the read stopped, in fetch order
DeliveredBeforeStop(events) ==
    LET got == SelectSeq(BeforeStop(events), LAMBDA e : e.kind = "msg")
    IN  [k \in 1..Len(got) |-> Val(got[k].msg)]

\* C11: under every behaviour of the cursor, one that fails on every call with
\* an error the reader passes over included, the call of
\* flatten_history_iterator eventually ends.
C11_HistoryReadTerminates == <>(pc = "done")

\* C16: no error of the cursor leaves flatten_history_iterator, whatever its
\* code or absence of code, and the call returns exactly the messages delivered
\* before the end of the sequence or the first error with code 50083, 10003,
\* 50001 or 50013, in fetch order, reversed when reverse is asked for.
C16_StopSkipPolicy ==
    HistoryCall
    => /\ outcome \in {"running", "returned"}
       /\ pc = "done"
            => retval = PyList(IF entry.reverse
                               THEN Reverse(DeliveredBeforeStop(entry.history.events))
                               ELSE DeliveredBeforeStop(entry.history.events))

(***************************************************************************)
(* Properties of the kind checks                                           *)
(***************************************************************************)
\* a migrate_channel call from a forum to a channel that is no forum, or from
\* a text channel to a channel that is no text channel
ChannelKindMismatch ==
    /\ entry.fn = "migrate_channel"
    /\ \/ entry.orig_chan.kind = "forum" /\ dest_chan.kind # "forum"
       \/ entry.orig_chan.kind = "text" /\ dest_chan.kind # "text"

\* a migrate_thread call with a kind pair other than (forum post, forum
\* channel) and (public thread that is no forum post, text channel)
ThreadKindMismatch ==
    /\ entry.fn = "migrate_thread"
    /\ ~ \/ entry.orig_thread.kind = "forum_post" /\ dest_chan.kind = "forum"
         \/ entry.orig_thread.kind = "public_thread" /\ dest_chan.kind = "text"

\* C12: a migrate_channel or migrate_thread call with mismatched kinds goes
\* from its entry straight to its return: it reaches no statement that fetches
\* a history, looks up or creates a webhook, or sends, and the webhooks, the
\* sends and the threads of the destination stay as they were.
C12_KindMismatchNoOp ==
    [][(ChannelKindMismatch \/ ThreadKindMismatch)
         => /\ pc' = "done"
            /\ outcome' = "returned"
            /\ webhooks' = webhooks
            /\ sends' = sends
            /\ threads' = threads
            /\ mm' = mm
            /\ fh' = fh]_vars

\* C12's case: a forum post with a root and a history, handed to migrate_thread
\* with a text channel that has no webhook yet, has returned and left nothing
C12_Witness ==
    /\ ThreadKindMismatch
    /\ entry.orig_thread.kind = "forum_post"
    /\ entry.orig_thread.initial_post # None
    /\ Len(entry.orig_thread.history) > 0
    /\ dest_chan.kind = "text"
    /\ pc = "done" /\ outcome = "returned"
    /\ webhooks = << >> /\ sends = << >> /\ threads = << >>

(***************************************************************************)
(* Properties of the traversals of migrate_channel                         *)
(***************************************************************************)
\* the codes the claims call terminal denials of a traversal
TraversalDenialCodes == {50083, 10003, 50001, 50013}

\* C15: after a send failed with code 50083, 10003, 50001 or 50013, the
\* text-channel loop of migrate_channel sends nothing for the later messages of
\* the channel, and migrate_message sends no fallback notice after a send into
\* a thread failed with code 50083.
C15_TerminalDenialStopsScope ==
    /\ TextToText
         => \A i \in 1..Len(sends) : \A j \in (i + 1)..Len(sends) :
               FailedWith(sends, i, TraversalDenialCodes)
                  => sends[j].unit <= sends[i].unit
    /\ ChannelCall
         => \A k \in 1..(Len(sends) - 1) :
               (FailedWith(sends, k, {50083}) /\ sends[k].thread # None)
                  => sends[k + 1].kind # "notice"

\* a migrate_channel call from a forum to a forum
ForumToForum == ChannelCall /\ entry.orig_chan.kind = "forum" /\ dest_chan.kind = "forum"

\* the ids of the posts of a listing, in the order the platform listed them
ListedIds(listing) == [k \in 1..Len(listing) |-> listing[k].id]

\* the order the claim gives the posts of the origin forum: the archived posts,
\* last listed first, then the active posts, last listed first
ClaimedPostOrder ==
    Reverse(ListedIds(entry.orig_chan.archived_threads))
    \o Reverse(ListedIds(entry.orig_chan.posts))

\* the place of the post `id` in an order of the posts
PlaceOf(order, id) == CHOOSE k \in 1..Len(order) : order[k] = id

\* C18: in a forum to forum run the sends follow the posts in the order: every
\* archived post before any active post, and within each group the reverse of
\* the order in which the platform listed the posts (no send is made for a post
\* placed before the post of the send just before it).
C18_ForumOrdering ==
    (ForumToForum /\ Len(sends) > 1)
    => LET order == ClaimedPostOrder IN
       \A i \in 1..(Len(sends) - 1) :
          PlaceOf(order, sends[i].unit) <= PlaceOf(order, sends[i + 1].unit)

\* C18's case: a finished run of two archived and two active posts, each of
\* which had a send delivered
C18_Witness ==
    /\ ForumToForum
    /\ pc = "done" /\ outcome = "returned"
    /\ Len(entry.orig_chan.archived_threads) = 2
    /\ Len(entry.orig_chan.posts) = 2
    /\ \A k \in 1..4 : \E i \in 1..Len(sends) :
          sends[i].ok /\ sends[i].unit = ClaimedPostOrder[k]

\* C20: in a text to text run in which every send succeeded and which returned,
\* each message of the fetched channel history led to at least one send, a
\* message that owns a thread whose fetched history is empty included.
C20_NoMessageDropped ==
    (TextToText /\ pc = "done" /\ outcome = "returned" /\ Failures(sends) = 0)
    => \A m \in Delivered(entry.orig_chan.history) :
          \E k \in 1..Len(sends) : sends[k].unit = m.id

====
